---------------------------- MODULE Spec2Model ----------------------------
(***************************************************************************)
(* A model of mod_bot.py, the Hyperledger Iroha Discord moderation bot:    *)
(* the detector detect_word_threshold, the message handler                 *)
(* ModerationBot.on_message and the start / interrupt / close lifecycle of *)
(* the __main__ block.                                                     *)
(*                                                                         *)
(* A text (Python str) is a sequence of characters, each a one-character   *)
(* string; "U+FF41" stands for the one code point FULLWIDTH LATIN SMALL    *)
(* LETTER A.  A word is a text without whitespace.                         *)
(***************************************************************************)
EXTENDS Integers, Sequences, FiniteSets

VARIABLES
    \* ---- ModerationBot fields, set once by __init__ ----
    config,                     \* self.config (json.load of the config file)
    restricted_pairs,           \* self.restricted_pairs
    unicode_translation_table,  \* self.unicode_translation_table
    \* ---- on_message activations ----
    frame,      \* the activation that ran last (to its return, await or raise)
    pending,    \* activations suspended at `await message.delete()`
    log,        \* records written by info(), oldest first
    \* ---- __main__ ----
    main_pc,        \* position of the __main__ block
    start_outcome,  \* how run_until_complete(bot_instance.start(token)) ended
    close_outcome,  \* how run_until_complete(bot_instance.close()) ended
    loop_closed,    \* bot_instance.loop.close() has run
    \* ---- one call of detect_word_threshold ----
    text, word_pairs, threshold,   \* the arguments
    det_pc,                        \* "call" before the call, "returned" after
    result                         \* the value returned

vars == <<config, restricted_pairs, unicode_translation_table,
          frame, pending, log,
          main_pc, start_outcome, close_outcome, loop_closed,
          text, word_pairs, threshold, det_pc, result>>

botVars  == <<config, restricted_pairs, unicode_translation_table>>
msgVars  == <<frame, pending, log>>
mainVars == <<main_pc, start_outcome, close_outcome, loop_closed>>
detVars  == <<text, word_pairs, threshold, det_pc, result>>

---------------------------------------------------------------------------
(* Bounds of the model *)

MaxLen == 3         \* longest text handed to the detector harness
MaxPairs == 1       \* longest pair list of a catalog entry
MaxThreshold == 2   \* largest threshold handed to the detector harness
MaxWords == 2       \* most words in the content of an incoming message
MaxRemovals == 2    \* most removals begun (suspended at the delete, or logged)

---------------------------------------------------------------------------
(* Python values *)

\* Python's None; a returned [word, count] list is the tuple <<word, count>>.
None == <<>>

\* Truth value of `if detection:`: None and the empty list are falsy.
Truthy(v) == v # None

\* All sequences over S of length at most n.
SeqUpTo(S, n) == UNION {[1..k -> S] : k \in 0..n}

\* str.isspace for the characters of the model.
IsSpace(c) == c = " "

\* str.lower on one character.
LowerChar(c) == CASE c = "A" -> "a"
                  [] c = "B" -> "b"
                  [] OTHER -> c

\* str.lower
lower(word) == [i \in 1..Len(word) |-> LowerChar(word[i])]

\* nltk word_tokenize on a text of letters and blanks: the maximal runs of
\* non-blank characters, in order.  cur is the run being read.
RECURSIVE Split(_, _)
Split(s, cur) ==
    IF s = <<>>
    THEN IF cur = <<>> THEN <<>> ELSE <<cur>>
    ELSE IF IsSpace(Head(s))
         THEN (IF cur = <<>> THEN <<>> ELSE <<cur>>) \o Split(Tail(s), <<>>)
         ELSE Split(Tail(s), Append(cur, Head(s)))

word_tokenize(s) == Split(s, <<>>)

\* list.count
ListCount(list, x) == Cardinality({i \in DOMAIN list : list[i] = x})

\* `x in list`
InList(x, list) == \E i \in DOMAIN list : list[i] = x

---------------------------------------------------------------------------
(* detect_word_threshold *)

\* words_in_text = [word.lower() for word in word_tokenize(text)]
WordsInText(t) ==
    LET toks == word_tokenize(t)
    IN  [i \in 1..Len(toks) |-> lower(toks[i])]

\* for pair in pairs: count += words_in_text.count(pair)
RECURSIVE PairsCount(_, _)
PairsCount(pairs, words_in_text) ==
    IF pairs = <<>> THEN 0
    ELSE ListCount(words_in_text, Head(pairs)) + PairsCount(Tail(pairs), words_in_text)

\* Mutant of EntryCount: the pair words are counted whether or not the word
\* itself is in the text (the `if word in words_in_text` guard is lost).
EntryCountUnguarded(word, pairs, words_in_text) ==
    ListCount(words_in_text, word) + PairsCount(pairs, words_in_text)

\* The count of one catalog entry: 0 unless the word itself is in the text.
EntryCount(word, pairs, words_in_text) ==
    IF InList(word, words_in_text)
    THEN ListCount(words_in_text, word) + PairsCount(pairs, words_in_text)
    ELSE 0

\* Mutant of MeetsThreshold: `>` written for `>=`.
MeetsThresholdStrict(count, th) == count > th

\* if count >= threshold
MeetsThreshold(count, th) == count >= th

\* Mutant of ScanItems: the loop does not return at the first entry that meets
\* the threshold but keeps the last one that does.
RECURSIVE ScanItemsKeepLast(_, _, _, _)
ScanItemsKeepLast(items, i, words_in_text, th) ==
    IF i > Len(items) THEN None
    ELSE LET count == EntryCount(items[i].word, items[i].pairs, words_in_text)
             later == ScanItemsKeepLast(items, i + 1, words_in_text, th)
         IN  IF MeetsThreshold(count, th) /\ later = None
             THEN <<items[i].word, count>>
             ELSE later

\* The loop over word_pairs.items(), from entry i on: the first entry whose
\* count meets the threshold is returned, None when the loop runs out.
RECURSIVE ScanItems(_, _, _, _)
ScanItems(items, i, words_in_text, th) ==
    IF i > Len(items) THEN None
    ELSE LET count == EntryCount(items[i].word, items[i].pairs, words_in_text)
         IN  IF MeetsThreshold(count, th)
             THEN <<items[i].word, count>>
             ELSE ScanItems(items, i + 1, words_in_text, th)

detect_word_threshold(t, pairsDict, th) ==
    ScanItems(pairsDict, 1, WordsInText(t), th)

---------------------------------------------------------------------------
(* The detector on its own: one call with arguments drawn from bounded sets *)

\* Characters of the texts handed to the detector.
Chars == {"a", "b", "A", " "}

\* Words a catalog is made of.
Words == {<<"a">>, <<"b">>}

Texts == SeqUpTo(Chars, MaxLen)

\* A dict keeps one entry per key, in insertion order.
UniqueKeys(items) ==
    \A i, j \in DOMAIN items : items[i].word = items[j].word => i = j

Entries == [word : Words, pairs : SeqUpTo(Words, MaxPairs)]

Catalogs == {c \in SeqUpTo(Entries, Cardinality(Words)) : UniqueKeys(c)}

---------------------------------------------------------------------------
(* ModerationBot.__init__ *)

\* A key of a Python dict: a str, or an int.  Both carry their value as a
\* string so that keys of the two types can be compared (and never are equal).
StrKey(s) == [type |-> "str", value |-> s]
IntKey(n) == [type |-> "int", value |-> n]

\* ord(c), in decimal.
Ord(c) == CASE c = " " -> "32"
            [] c = "A" -> "65"
            [] c = "B" -> "66"
            [] c = "a" -> "97"
            [] c = "b" -> "98"
            [] c = "U+FF41" -> "65345"

\* json.load of a JSON object whose members are those of f (name -> value):
\* the dict it returns has a str key for every member name.
JsonLoad(f) == [k \in {StrKey(name) : name \in DOMAIN f} |-> f[k.value]]

\* dict.get(key, default), key a str
DictGet(d, key, default) ==
    IF StrKey(key) \in DOMAIN d THEN d[StrKey(key)] ELSE default

\* Config files: without an allow-list, with an empty one, with one channel.
ConfigFiles ==
    { [n \in {} |-> <<>>],
      [n \in {"allowed_channels"} |-> <<>>],
      [n \in {"allowed_channels"} |-> <<"general">>] }

\* restricted_pairs.json: the word "a" with no pair words.
RestrictedPairsFile == << [word |-> <<"a">>, pairs |-> <<>>] >>

\* unicode_translation_table.json: fullwidth a is written for a.
TranslationTableFile == [c \in {"U+FF41"} |-> <<"a">>]

\* self.user
BotUser == "bot"

---------------------------------------------------------------------------
(* ModerationBot.on_message *)

\* str.translate(table): each character is looked up under its ordinal, an
\* int; a character whose ordinal is no key of the table is kept.
RECURSIVE Translate(_, _)
Translate(s, table) ==
    IF s = <<>> THEN <<>>
    ELSE (IF IntKey(Ord(Head(s))) \in DOMAIN table
          THEN table[IntKey(Ord(Head(s)))]
          ELSE <<Head(s)>>) \o Translate(Tail(s), table)

\* Mutant of IgnoredSender: the channel's class is not looked at.
IgnoredSenderAuthorOnly(m) == m.author = BotUser

\* message.author == self.user or
\* message.channel.__class__.__name__ != 'TextChannel'
IgnoredSender(m) ==
    m.author = BotUser \/ m.channel_class # "TextChannel"

\* Mutant of ChannelAllowed: a config without the list allows every channel.
ChannelAllowedByDefault(name, cfg) ==
    \/ StrKey("allowed_channels") \notin DOMAIN cfg
    \/ InList(name, DictGet(cfg, "allowed_channels", <<>>))

\* message.channel.name in self.config.get('allowed_channels', [])
ChannelAllowed(name, cfg) ==
    InList(name, DictGet(cfg, "allowed_channels", <<>>))

\* Locals not yet assigned: a str, a name, a detection.
Unbound == <<"<unbound>">>
UnboundName == "<unbound>"
UnboundResult == <<Unbound, 0>>

NoMessage == [author |-> "", channel_class |-> "", channel_name |-> "",
              content |-> <<>>]

\* No activation has run yet.
NoFrame == [message |-> NoMessage, trace |-> <<>>, author |-> UnboundName,
            content |-> Unbound, detect_arg |-> Unbound,
            detection |-> UnboundResult, delete |-> "not_called",
            pc |-> "none"]

\* The argument on_message hands to detect_word_threshold: message.content.
DetectorArgument(m, content) == m.content

\* An activation of on_message for message m, run from its entry to its first
\* return or to `await message.delete()`.  trace lists the statements run.
OnMessage(m, cfg, rp, table) ==
    IF IgnoredSender(m)
    THEN [NoFrame EXCEPT !.message = m, !.trace = <<"sender_check">>,
                         !.pc = "returned"]
    ELSE IF ~ChannelAllowed(m.channel_name, cfg)
    THEN [NoFrame EXCEPT !.message = m,
                         !.trace = <<"sender_check", "channel_check">>,
                         !.pc = "returned"]
    ELSE LET content == Translate(m.content, table)
             arg == DetectorArgument(m, content)
             detection == detect_word_threshold(arg, rp, 2)
         IN  IF Truthy(detection)
             THEN [message |-> m,
                   trace |-> <<"sender_check", "channel_check", "translate",
                               "detect", "delete">>,
                   author |-> m.author, content |-> m.content,
                   detect_arg |-> arg, detection |-> detection,
                   delete |-> "awaited", pc |-> "await_delete"]
             ELSE [message |-> m,
                   trace |-> <<"sender_check", "channel_check", "translate",
                               "detect">>,
                   author |-> UnboundName, content |-> content,
                   detect_arg |-> arg, detection |-> detection,
                   delete |-> "not_called", pc |-> "returned"]

\* Mutant of RemovalRecord: the name logged is the bot's own.
RemovalRecordBotName(fr) ==
    [author |-> BotUser, content |-> fr.content, count |-> fr.detection[2]]

\* info(f'Removed a message from "{author}": "{content}" | {detection[1]}')
RemovalRecord(fr) ==
    [author |-> fr.author, content |-> fr.content, count |-> fr.detection[2]]

\* The sequence without its i-th element.
Without(seq, i) ==
    [k \in 1..(Len(seq) - 1) |-> IF k < i THEN seq[k] ELSE seq[k + 1]]

\* Incoming messages.
ContentWords == {<<"a">>, <<"U+FF41">>}

RECURSIVE Join(_)
Join(ws) ==
    IF ws = <<>> THEN <<>>
    ELSE IF Len(ws) = 1 THEN Head(ws)
    ELSE Head(ws) \o <<" ">> \o Join(Tail(ws))

Contents == {Join(ws) : ws \in SeqUpTo(ContentWords, MaxWords)}

Messages == [author : {BotUser, "alice"},
             channel_class : {"TextChannel", "Thread"},
             channel_name : {"general", "random"},
             content : Contents]

\* The event loop is running: inside run_until_complete(start) or
\* run_until_complete(close).
LoopRunning == main_pc \in {"start", "close"}

\* Mutant of Deliver: the detector uses up the catalog entry it reports.
DeliverConsuming(m) ==
    /\ main_pc = "start"
    /\ Len(pending) + Len(log) < MaxRemovals
    /\ frame' = OnMessage(m, config, restricted_pairs, unicode_translation_table)
    /\ pending' = IF frame'.pc = "await_delete" THEN Append(pending, frame')
                  ELSE pending
    /\ restricted_pairs' = IF frame'.pc = "await_delete"
                           THEN Tail(restricted_pairs) ELSE restricted_pairs
    /\ UNCHANGED <<log, config, unicode_translation_table, mainVars, detVars>>

\* The client dispatches a message event: on_message runs to its return or to
\* the await.
Deliver(m) ==
    /\ main_pc = "start"
    /\ Len(pending) + Len(log) < MaxRemovals
    /\ frame' = OnMessage(m, config, restricted_pairs, unicode_translation_table)
    /\ pending' = IF frame'.pc = "await_delete" THEN Append(pending, frame')
                  ELSE pending
    /\ UNCHANGED <<log, botVars, mainVars, detVars>>

\* message.delete() completes: the activation resumes and writes the record.
DeleteDone(i) ==
    /\ LoopRunning
    /\ i \in DOMAIN pending
    /\ frame' = [pending[i] EXCEPT !.trace = Append(@, "info"),
                                   !.delete = "done", !.pc = "returned"]
    /\ log' = Append(log, RemovalRecord(pending[i]))
    /\ pending' = Without(pending, i)
    /\ UNCHANGED <<botVars, mainVars, detVars>>

\* message.delete() raises (Forbidden, NotFound, HTTPException): nothing in
\* on_message catches it, so it leaves the activation.
DeleteFails(i) ==
    /\ LoopRunning
    /\ i \in DOMAIN pending
    /\ frame' = [pending[i] EXCEPT !.delete = "raised", !.pc = "raised"]
    /\ pending' = Without(pending, i)
    /\ UNCHANGED <<log, botVars, mainVars, detVars>>

---------------------------------------------------------------------------
(* __main__: try / except KeyboardInterrupt / finally *)

\* run_until_complete(bot_instance.start(token)) returns.
StartReturns ==
    /\ main_pc = "start"
    /\ start_outcome' = "returned"
    /\ main_pc' = "finally"
    /\ UNCHANGED <<close_outcome, loop_closed, botVars, msgVars, detVars>>

\* Mutant of StartInterrupted: the except clause does not run close.
StartInterruptedNoClose ==
    /\ main_pc = "start"
    /\ start_outcome' = "interrupt"
    /\ main_pc' = "finally"
    /\ UNCHANGED <<close_outcome, loop_closed, botVars, msgVars, detVars>>

\* SIGINT while start runs: default_int_handler raises KeyboardInterrupt, the
\* except clause begins run_until_complete(bot_instance.close()).
StartInterrupted ==
    /\ main_pc = "start"
    /\ start_outcome' = "interrupt"
    /\ main_pc' = "close"
    /\ close_outcome' = "running"
    /\ UNCHANGED <<loop_closed, botVars, msgVars, detVars>>

\* start raises anything else (a login failure, say): no except clause takes it.
StartFails ==
    /\ main_pc = "start"
    /\ start_outcome' = "error"
    /\ main_pc' = "finally"
    /\ UNCHANGED <<close_outcome, loop_closed, botVars, msgVars, detVars>>

\* bot_instance.close() runs to completion.
CloseCompletes ==
    /\ main_pc = "close"
    /\ close_outcome' = "completed"
    /\ main_pc' = "finally"
    /\ UNCHANGED <<start_outcome, loop_closed, botVars, msgVars, detVars>>

\* A further SIGINT (the handler of line 146 stays installed) or an error of
\* close ends run_until_complete(close) by an exception, inside the except
\* clause: the finally clause runs next.
CloseRaises ==
    /\ main_pc = "close"
    /\ close_outcome' = "raised"
    /\ main_pc' = "finally"
    /\ UNCHANGED <<start_outcome, loop_closed, botVars, msgVars, detVars>>

\* finally: bot_instance.loop.close()
LoopClose ==
    /\ main_pc = "finally"
    /\ loop_closed' = TRUE
    /\ main_pc' = "exited"
    /\ UNCHANGED <<start_outcome, close_outcome, botVars, msgVars, detVars>>

---------------------------------------------------------------------------
(* The bot *)

Init ==
    /\ config \in {JsonLoad(f) : f \in ConfigFiles}
    /\ restricted_pairs = RestrictedPairsFile
    /\ unicode_translation_table = JsonLoad(TranslationTableFile)
    /\ frame = NoFrame
    /\ pending = <<>>
    /\ log = <<>>
    /\ main_pc = "start"
    /\ start_outcome = "none"
    /\ close_outcome = "not_run"
    /\ loop_closed = FALSE
    /\ text = <<>>
    /\ word_pairs = <<>>
    /\ threshold = 2
    /\ det_pc = "idle"
    /\ result = None

Next ==
    \/ \E m \in Messages : Deliver(m)
    \/ \E i \in 1..MaxRemovals : DeleteDone(i)
    \/ \E i \in 1..MaxRemovals : DeleteFails(i)
    \/ StartReturns
    \/ StartInterrupted
    \/ StartFails
    \/ CloseCompletes
    \/ CloseRaises
    \/ LoopClose

Spec == Init /\ [][Next]_vars

---------------------------------------------------------------------------
(* The detector harness *)

\* The call: result = detect_word_threshold(text, word_pairs, threshold)
Detect ==
    /\ det_pc = "call"
    /\ result' = detect_word_threshold(text, word_pairs, threshold)
    /\ det_pc' = "returned"
    /\ UNCHANGED <<text, word_pairs, threshold, botVars, msgVars, mainVars>>

InitDetect ==
    /\ text \in Texts
    /\ word_pairs \in Catalogs
    /\ threshold \in 1..MaxThreshold
    /\ det_pc = "call"
    /\ result = None
    /\ config = JsonLoad([n \in {"allowed_channels"} |-> <<"general">>])
    /\ restricted_pairs = RestrictedPairsFile
    /\ unicode_translation_table = JsonLoad(TranslationTableFile)
    /\ frame = NoFrame
    /\ pending = <<>>
    /\ log = <<>>
    /\ main_pc = "start"
    /\ start_outcome = "none"
    /\ close_outcome = "not_run"
    /\ loop_closed = FALSE

NextDetect == Detect

SpecDetect == InitDetect /\ [][NextDetect]_vars

---------------------------------------------------------------------------
(* Claims about detect_word_threshold, stated over the call of the harness *)

\* T: the token sequence the call counts over.
TokensOfCall == WordsInText(text)

\* Occurrences of word w in T.
Occurrences(w) == Cardinality({i \in DOMAIN TokensOfCall : TokensOfCall[i] = w})

\* Occurrences in T of the pair words of entry k, summed over its pair list.
PairOccurrences(k) ==
    Cardinality({p \in (DOMAIN TokensOfCall) \X (DOMAIN word_pairs[k].pairs) :
                    TokensOfCall[p[1]] = word_pairs[k].pairs[p[2]]})

\* Combined count of entry k.
Combined(k) == Occurrences(word_pairs[k].word) + PairOccurrences(k)

\* Entry k's trigger occurs in T and its combined count reaches the threshold.
Qualifies(k) == Occurrences(word_pairs[k].word) >= 1 /\ Combined(k) >= threshold

\* C1: whenever some catalog entry qualifies (its trigger occurs in T and its
\* combined count, occurrences of the trigger plus occurrences of each of its
\* pair words, is >= threshold), the call returns [w, n] for the first
\* qualifying entry in stored order, with n its combined count; entries before
\* it that do not qualify do not block it and no later entry is returned.
C1_FirstQualifyingWins ==
    (det_pc = "returned" /\ \E k \in DOMAIN word_pairs : Qualifies(k)) =>
        LET first == CHOOSE k \in DOMAIN word_pairs :
                        Qualifies(k) /\ \A j \in 1..(k - 1) : ~Qualifies(j)
        IN  result = <<word_pairs[first].word, Combined(first)>>

\* Witness of C1: two entries qualify and the first of them was returned, its
\* count made of the trigger and a pair word.
C1_Witness ==
    /\ det_pc = "returned"
    /\ Len(word_pairs) = 2
    /\ Qualifies(1) /\ Qualifies(2)
    /\ PairOccurrences(1) >= 1
    /\ result = <<word_pairs[1].word, Combined(1)>>

\* C2: with threshold 2, when no trigger of the catalog is a token of T the
\* call returns None, however often pair words occur in T.
C2_NoTriggerNoDetection ==
    (/\ det_pc = "returned"
     /\ threshold = 2
     /\ \A k \in DOMAIN word_pairs : Occurrences(word_pairs[k].word) = 0)
    => result = None

\* Witness of C2: no trigger in T, pair words of an entry occur twice, and the
\* call returned None.
C2_Witness ==
    /\ det_pc = "returned"
    /\ threshold = 2
    /\ \A k \in DOMAIN word_pairs : Occurrences(word_pairs[k].word) = 0
    /\ \E k \in DOMAIN word_pairs : PairOccurrences(k) >= 2
    /\ result = None

\* Words of the catalog: its triggers, and the pair words of its entries.
Triggers == {word_pairs[k].word : k \in DOMAIN word_pairs}
PairWords == UNION {{word_pairs[k].pairs[j] : j \in DOMAIN word_pairs[k].pairs} :
                       k \in DOMAIN word_pairs}

\* C3: for a trigger present in T, a combined count equal to the threshold is
\* a detection (returned with that count when no earlier entry qualifies) and
\* a combined count of threshold - 1 is none for that trigger; with threshold
\* 2 a text whose only catalog word is one occurrence of a trigger, with no
\* pair word in it, gives None, and a trigger with one pair word, or a
\* trigger twice, is detected with count 2.
C3_ThresholdBoundary ==
    det_pc = "returned" =>
        /\ \A k \in DOMAIN word_pairs :
              /\ (/\ Occurrences(word_pairs[k].word) >= 1
                  /\ Combined(k) = threshold
                  /\ \A j \in 1..(k - 1) : ~Qualifies(j))
                 => result = <<word_pairs[k].word, threshold>>
              /\ (/\ Occurrences(word_pairs[k].word) >= 1
                  /\ Combined(k) = threshold - 1)
                 => (result = None \/ result[1] # word_pairs[k].word)
        /\ (/\ threshold = 2
            /\ Cardinality({i \in DOMAIN TokensOfCall :
                               TokensOfCall[i] \in Triggers \cup PairWords}) = 1
            /\ \A i \in DOMAIN TokensOfCall : TokensOfCall[i] \notin PairWords)
           => result = None

\* Witness of C3: threshold 2, the trigger once and one pair word once, and
\* the call returned the trigger with count 2.
C3_Witness ==
    /\ det_pc = "returned"
    /\ threshold = 2
    /\ \E k \in DOMAIN word_pairs :
          /\ Occurrences(word_pairs[k].word) = 1
          /\ PairOccurrences(k) = 1
          /\ result = <<word_pairs[k].word, 2>>

---------------------------------------------------------------------------
(* Claims about on_message *)

\* The activations the state holds: the one that ran last and the suspended.
Activations ==
    (IF frame.pc = "none" THEN {} ELSE {frame})
        \cup {pending[i] : i \in DOMAIN pending}

\* The activation ran the statement.
Ran(fr, stmt) == \E i \in DOMAIN fr.trace : fr.trace[i] = stmt

\* The configured allow-list; empty when the config has none.
AllowList ==
    IF \E k \in DOMAIN config : k.value = "allowed_channels"
    THEN config[CHOOSE k \in DOMAIN config : k.value = "allowed_channels"]
    ELSE <<>>

InAllowList(name) == \E i \in DOMAIN AllowList : AllowList[i] = name

\* An eligible message: allowed text channel, not authored by the bot.
Eligible(m) ==
    /\ m.author # BotUser
    /\ m.channel_class = "TextChannel"
    /\ InAllowList(m.channel_name)

\* The text with every character that is a key of the translation table
\* replaced by the value the table maps it to.
RECURSIVE Folded(_)
Folded(s) ==
    IF s = <<>> THEN <<>>
    ELSE (IF \E k \in DOMAIN unicode_translation_table : k.value = Head(s)
          THEN unicode_translation_table[
                   CHOOSE k \in DOMAIN unicode_translation_table : k.value = Head(s)]
          ELSE <<Head(s)>>) \o Folded(Tail(s))

\* C4: the detection of every activation that reaches the detector is the
\* detection of the translated text: each character of the message content
\* that is a key of the unicode translation table is replaced by its mapped
\* value before the tokens are counted, so a message written with lookalike
\* characters is detected as its folded equivalent is.
C4_DetectsTranslatedText ==
    \A fr \in Activations :
        Ran(fr, "detect") =>
            fr.detection = detect_word_threshold(Folded(fr.message.content),
                                                 restricted_pairs, 2)

\* The step writes to the log: it is the resumption of a suspended activation
\* whose delete completed, and the record appended carries that message's
\* author name, its content as received and the detected count.
LogStepIsRemoval ==
    \E i \in DOMAIN pending :
        /\ pending[i].delete = "awaited"
        /\ frame' = [pending[i] EXCEPT !.trace = Append(@, "info"),
                                       !.delete = "done", !.pc = "returned"]
        /\ pending' = Without(pending, i)
        /\ log' = Append(log, [author |-> pending[i].message.author,
                               content |-> pending[i].message.content,
                               count |-> pending[i].detection[2]])

\* C5: a message whose channel name is not in the configured allow-list (the
\* list missing from the config included) never reaches the detector, never
\* has delete called on it and never gets a removal record, whatever its
\* content: its activation returns without them, and every record written
\* belongs to an activation whose channel is in the list.
C5_ChannelFiltering ==
    /\ [](\A fr \in Activations :
            ~InAllowList(fr.message.channel_name) =>
                /\ fr.pc = "returned"
                /\ ~Ran(fr, "detect") /\ ~Ran(fr, "delete") /\ ~Ran(fr, "info")
                /\ fr.delete = "not_called")
    /\ [][log' # log =>
            LogStepIsRemoval /\ InAllowList(frame'.message.channel_name)]_vars

\* Witness of C5: the config has no allow-list, and a message that any other
\* check would let through and whose content meets the threshold was handled
\* without detector or delete.
C5_Witness ==
    /\ \A k \in DOMAIN config : k.value # "allowed_channels"
    /\ frame.pc = "returned"
    /\ frame.message.author # BotUser
    /\ frame.message.channel_class = "TextChannel"
    /\ detect_word_threshold(frame.message.content, restricted_pairs, 2) # None
    /\ ~Ran(frame, "detect")

\* C6: when the delete of a detected message fails, the failure is reported
\* in the log and does not leave the handler: the activation completes
\* normally.
C6_DeleteFailureIsLoggedAndContained ==
    [][(frame' # frame /\ frame'.delete = "raised") =>
            (frame'.pc = "returned" /\ Len(log') = Len(log) + 1)]_vars

\* C7: handling messages leaves restricted_pairs, unicode_translation_table
\* and config as loaded, and the detection of a message is decided by its
\* text and the catalog alone: activations of equal content carry equal
\* detections, whether suspended together or one after the other.
C7_StatelessDetector ==
    /\ [][botVars' = botVars]_vars
    /\ [](\A f1, f2 \in Activations :
            (/\ Ran(f1, "detect") /\ Ran(f2, "detect")
             /\ f1.message.content = f2.message.content)
            => f1.detection = f2.detection)
    /\ [][\A f1 \in Activations :
            (/\ Ran(f1, "detect") /\ Ran(frame', "detect")
             /\ f1.message.content = frame'.message.content)
            => frame'.detection = f1.detection]_vars

\* Witness of C7: a message was detected while an earlier one of the same
\* content is still suspended at its delete; both carry the same detection.
C7_Witness ==
    /\ Len(pending) = 2
    /\ frame = pending[2]
    /\ pending[1].message.content = frame.message.content
    /\ pending[1].detection = frame.detection
    /\ frame.detection # None

\* C8: for an eligible message the detector is called with threshold 2 and
\* delete is called exactly when it returns a result; a removal record is
\* written only by the activation resuming after its delete completed, once
\* (the activation ends with it), and carries the author name, the content
\* as received and the detected count.
C8_DeleteIffDetected ==
    /\ [](\A fr \in Activations :
            Eligible(fr.message) =>
                /\ Ran(fr, "detect")
                /\ fr.detection = detect_word_threshold(fr.detect_arg,
                                                        restricted_pairs, 2)
                /\ Ran(fr, "delete") <=> fr.detection # None
                /\ Ran(fr, "info") => fr.delete = "done")
    /\ [][log' # log => LogStepIsRemoval]_vars
    /\ [][\A i \in DOMAIN log : i \in DOMAIN log' /\ log'[i] = log[i]]_vars

\* Witness of C8: an eligible message was detected, its delete completed and
\* its record is the last of the log.
C8_Witness ==
    /\ Eligible(frame.message)
    /\ frame.delete = "done"
    /\ Ran(frame, "info")
    /\ Len(log) >= 1
    /\ log[Len(log)].content = frame.message.content
    /\ log[Len(log)].count = 2

\* C10: a message authored by the bot itself, or from a channel that is not
\* a TextChannel, is never handed to the detector and never deleted, even in
\* an allowed channel with content that meets the threshold: its activation
\* returns at the first check, which every activation makes before the
\* allow-list check.
C10_OwnAndNonTextIgnored ==
    \A fr \in Activations :
        /\ (fr.message.author = BotUser \/ fr.message.channel_class # "TextChannel")
           => (fr.trace = <<"sender_check">> /\ fr.pc = "returned"
               /\ fr.delete = "not_called")
        /\ Ran(fr, "channel_check")
           => (fr.trace[1] = "sender_check" /\ fr.trace[2] = "channel_check")

\* Witness of C10: the bot's own message, in an allowed text channel, with
\* content that meets the threshold, returned at the first check.
C10_Witness ==
    /\ frame.message.author = BotUser
    /\ frame.message.channel_class = "TextChannel"
    /\ InAllowList(frame.message.channel_name)
    /\ detect_word_threshold(frame.message.content, restricted_pairs, 2) # None
    /\ frame.trace = <<"sender_check">>
    /\ frame.pc = "returned"

---------------------------------------------------------------------------
(* Claims about __main__ *)

===========================================================================
